---- MODULE Spec2Model ----
(***************************************************************************)
(* DevBench (src/src/devbench.py): a tree of named, timed "processes"      *)
(* (spans) that one thread mutates through enter_process / leave_process   *)
(* while a background DevPrinter thread renders and saves it.              *)
(*                                                                         *)
(* The tree is a sequence of Process records; a Process object is named    *)
(* by its index in that sequence (objects are created in pre-order, so the *)
(* index is also the pre-order rank), bench.root is index 1, and the       *)
(* parent reference None is index 0.  time.time() is an integer clock      *)
(* `now` that never runs backwards.                                        *)
(***************************************************************************)
EXTENDS Integers, Sequences, FiniteSets, TLC

VARIABLES
    nodes,          \* the Process objects reachable from bench.root
    now,            \* the value time.time() returns
    lock,           \* bench.lock (threading.RLock): [owner, count]
    ret,            \* the caller's last DevBench call: [err, value, text]
    session_file,   \* content of <project>/bench.json (NoFile: absent)
    out_file,       \* content of <project>/out (NoFile: absent)
    resumed,        \* TRUE once bench.root came from loadf
    cmd,            \* main thread: [pc, name, at] (position, pending name, node)
    engaged,        \* main's `engaged` flag
    prn,            \* DevPrinter thread: [pc, buf] (position, rendered text)
    engaged_count,  \* DevPrinter.engaged_count
    cycles,         \* loop iterations the printer started since terminate()
    stable          \* the tree as the last completed DevBench call left it

vars == <<nodes, now, lock, ret, session_file, out_file, resumed,
          cmd, engaged, prn, engaged_count, cycles, stable>>

-----------------------------------------------------------------------------
(* Bounds of the model *)

MaxNodes == 3        \* Process objects in the tree, root included (API runs)
MaxTime == 2         \* largest clock value (API runs)
MaxHeld == 1         \* largest RLock recursion count left behind by failed calls
MaxTotal == 4        \* no leave_process once some total_time reached this
MaxSessionNodes == 3 \* Process objects in the tree (two-thread session runs)
MaxSessionTime == 1  \* largest clock value (two-thread session runs)

(* What the user may type as a span name, and the stored (lower-cased) names *)
NameInputs == {"A", "root"}

lower(name) == IF name = "A" THEN "a" ELSE name

NoFile == [exists |-> FALSE]
EmptyFile == [exists |-> TRUE, empty |-> TRUE]
NoEnd == -1
None == 0
Root == 1

-----------------------------------------------------------------------------
(* Process *)

Process(name, parent, t) ==
    [ parent        |-> parent,
      children      |-> <<>>,
      begin_time    |-> t,
      name          |-> lower(name),
      end_time      |-> NoEnd,
      personal_time |-> 0,
      total_time    |-> 0 ]

(* _add_time with line 76 left out *)
_add_time_personal_only(ns, p, t) ==
    [ns EXCEPT ![p].personal_time = @ + t]

_add_time(ns, p, t) ==
    [ns EXCEPT ![p].personal_time = @ + t, ![p].total_time = @ + t]

ended(ns, p) == ns[p].end_time # NoEnd

last_child(ns, p) == ns[p].children[Len(ns[p].children)]

(* appending the new child object to the heap and to p.children *)
append_child(ns, p, child) ==
    [Append(ns, child) EXCEPT ![p].children = Append(@, Len(ns) + 1)]

set_end_time(ns, p, t) == [ns EXCEPT ![p].end_time = t]

(* line 126 left out *)
add_child_total_dropped(ns, p, c) == ns

(* line 126 adding the child's total to personal_time as well *)
add_child_total_and_personal(ns, p, c) ==
    [ns EXCEPT ![p].total_time = @ + ns[c].total_time,
               ![p].personal_time = @ + ns[c].total_time]

add_child_total(ns, p, c) ==
    [ns EXCEPT ![p].total_time = @ + ns[c].total_time]

(* begin without the propagation of lines 105-107: the child is always
   appended to the process begin was called on *)
begin_no_propagation(ns, p, name, t) ==
    IF ended(ns, p)
    THEN [ok |-> FALSE, ns |-> ns]
    ELSE LET new_child == Process(name, p, t)
             marker == IF Len(ns[p].children) = 0 THEN ns[p].begin_time
                       ELSE IF ended(ns, last_child(ns, p))
                            THEN ns[last_child(ns, p)].end_time
                            ELSE ns[last_child(ns, p)].begin_time
         IN [ok |-> TRUE,
             ns |-> append_child(_add_time(ns, p, new_child.begin_time - marker),
                                 p, new_child)]

(* begin without the test of line 100: it propagates into the last child
   whether or not that child has ended *)
RECURSIVE begin_into_ended(_, _, _, _)
begin_into_ended(ns, p, name, t) ==
    IF ended(ns, p)
    THEN [ok |-> FALSE, ns |-> ns]
    ELSE IF Len(ns[p].children) = 0
    THEN LET new_child == Process(name, p, t)
         IN [ok |-> TRUE,
             ns |-> append_child(
                        _add_time(ns, p, new_child.begin_time - ns[p].begin_time),
                        p, new_child)]
    ELSE begin_into_ended(ns, last_child(ns, p), name, t)

(* begin with line 102 measuring from self.begin_time, as line 96 does *)
RECURSIVE begin_from_own_begin(_, _, _, _)
begin_from_own_begin(ns, p, name, t) ==
    IF ended(ns, p)
    THEN [ok |-> FALSE, ns |-> ns]
    ELSE IF Len(ns[p].children) = 0 \/ ended(ns, last_child(ns, p))
    THEN LET new_child == Process(name, p, t)
         IN [ok |-> TRUE,
             ns |-> append_child(
                        _add_time(ns, p, new_child.begin_time - ns[p].begin_time),
                        p, new_child)]
    ELSE begin_from_own_begin(ns, last_child(ns, p), name, t)

(* Process.begin: ok = FALSE is the RuntimeError of line 91 *)
RECURSIVE begin(_, _, _, _)
begin(ns, p, name, t) ==
    IF ended(ns, p)
    THEN [ok |-> FALSE, ns |-> ns]
    ELSE IF Len(ns[p].children) = 0
    THEN LET new_child == Process(name, p, t)
         IN [ok |-> TRUE,
             ns |-> append_child(
                        _add_time(ns, p, new_child.begin_time - ns[p].begin_time),
                        p, new_child)]
    ELSE IF ended(ns, last_child(ns, p))
    THEN LET new_child == Process(name, p, t)
         IN [ok |-> TRUE,
             ns |-> append_child(
                        _add_time(ns, p, new_child.begin_time
                                           - ns[last_child(ns, p)].end_time),
                        p, new_child)]
    ELSE begin(ns, last_child(ns, p), name, t)

(* end with line 117 measuring from self.begin_time, as line 113 does *)
RECURSIVE end_from_own_begin(_, _, _)
end_from_own_begin(ns, p, t) ==
    IF Len(ns[p].children) = 0 \/ ended(ns, last_child(ns, p))
    THEN LET s == set_end_time(ns, p, t)
         IN [ns |-> _add_time(s, p, s[p].end_time - s[p].begin_time),
             name |-> ns[p].name]
    ELSE LET c == last_child(ns, p)
             r == end_from_own_begin(ns, c, t)
         IN [ns |-> IF ended(r.ns, c) THEN add_child_total(r.ns, p, c) ELSE r.ns,
             name |-> r.name]

(* Process.end: returns the tree and the name of the process that ended *)
RECURSIVE end(_, _, _)
end(ns, p, t) ==
    IF Len(ns[p].children) = 0
    THEN LET s == set_end_time(ns, p, t)
         IN [ns |-> _add_time(s, p, s[p].end_time - s[p].begin_time),
             name |-> ns[p].name]
    ELSE IF ended(ns, last_child(ns, p))
    THEN LET s == set_end_time(ns, p, t)
         IN [ns |-> _add_time(s, p, s[p].end_time - s[last_child(s, p)].end_time),
             name |-> ns[p].name]
    ELSE LET c == last_child(ns, p)
             r == end(ns, c, t)
         IN [ns |-> IF ended(r.ns, c) THEN add_child_total(r.ns, p, c) ELSE r.ns,
             name |-> r.name]

-----------------------------------------------------------------------------
(* Snapshot: ProcessEncoder.default and Process._json_object_hook *)

(* ProcessEncoder.default: the JSON object of a Process, children nested *)
RECURSIVE default(_, _)
default(ns, p) ==
    [ name          |-> ns[p].name,
      begin_time    |-> ns[p].begin_time,
      end_time      |-> ns[p].end_time,
      personal_time |-> ns[p].personal_time,
      total_time    |-> ns[p].total_time,
      children      |-> [i \in 1..Len(ns[p].children) |->
                            default(ns, ns[p].children[i])] ]

(* number of objects json.load builds for a JSON object *)
RECURSIVE docSize(_)
docSize(dct) ==
    LET RECURSIVE sum(_)
        sum(ds) == IF ds = <<>> THEN 0 ELSE docSize(Head(ds)) + sum(Tail(ds))
    IN 1 + sum(dct.children)

(* the heap indices of the objects built for a children list, the first
   child's object being `first` *)
RECURSIVE childIds(_, _)
childIds(ds, first) ==
    IF ds = <<>> THEN <<>>
    ELSE <<first>> \o childIds(Tail(ds), first + docSize(Head(ds)))

(* Process._json_object_hook, applied bottom-up by json.load: the objects of
   the subtree of dct in pre-order, the first being the Process built for
   dct itself, at heap index id.  kids are the already-built subtrees. *)
_json_object_hook(dct, id, kids) ==
    LET proc == [ name          |-> dct.name,
                  begin_time    |-> dct.begin_time,
                  end_time      |-> dct.end_time,
                  personal_time |-> dct.personal_time,
                  total_time    |-> dct.total_time,
                  children      |-> childIds(dct.children, id + 1),
                  parent        |-> None ]
        \* for child in proc.children: child.parent = proc
        wired == [i \in 1..Len(kids) |->
                    IF i + id \in {proc.children[j] : j \in 1..Len(proc.children)}
                    THEN [kids[i] EXCEPT !.parent = id] ELSE kids[i]]
    IN <<IF proc.name = "root"
         THEN [proc EXCEPT !.end_time = NoEnd, !.parent = None]
         ELSE proc>> \o wired

RECURSIVE load(_, _)
load(dct, id) ==
    LET RECURSIVE loadAll(_, _)
        loadAll(ds, first) ==
            IF ds = <<>> THEN <<>>
            ELSE load(Head(ds), first)
                   \o loadAll(Tail(ds), first + docSize(Head(ds)))
    IN _json_object_hook(dct, id, loadAll(dct.children, id + 1))

(* DevBench.loadf: the new bench.root and everything below it *)
loadf(file) == load(file, Root)

(* DevBench.savef: what json.dump writes *)
savef(ns) == default(ns, Root)

-----------------------------------------------------------------------------
(* DevBench queries *)

done(ns) == ended(ns, Root)

(* the walk without the test `not proc.children[-1].ended()` of lines 188
   and 202: it goes down to the last child whether or not it has ended *)
RECURSIVE running_walk_into_ended(_, _)
running_walk_into_ended(ns, proc) ==
    IF Len(ns[proc].children) # 0
    THEN <<proc>> \o running_walk_into_ended(ns, last_child(ns, proc))
    ELSE <<proc>>

(* the walk of running_process / running_path: the objects visited *)
RECURSIVE running_walk(_, _)
running_walk(ns, proc) ==
    IF Len(ns[proc].children) # 0 /\ ~ended(ns, last_child(ns, proc))
    THEN <<proc>> \o running_walk(ns, last_child(ns, proc))
    ELSE <<proc>>

running_process(ns) ==
    LET w == running_walk(ns, Root) IN w[Len(w)]

(* the dot-joined names, kept as the sequence of names *)
running_path(ns) ==
    LET w == running_walk(ns, Root) IN [i \in 1..Len(w) |-> ns[w[i]].name]

(* Process.time_so_far: ok = FALSE is the RuntimeError of line 86 *)
time_so_far(ns, p, t) ==
    IF ~ended(ns, p)
    THEN [ok |-> TRUE, value |-> t - ns[p].begin_time]
    ELSE [ok |-> FALSE, value |-> 0]

(* time_str: the numbers printed, largest unit first *)
time_str(time_s) ==
    LET sec_i == time_s
    IN IF sec_i >= 60
       THEN LET min_i == sec_i \div 60
                s == time_s - min_i * 60
            IN IF min_i >= 60
               THEN LET hr_i == min_i \div 60
                        m == min_i - hr_i * 60
                    IN IF hr_i >= 24
                       THEN LET day_i == hr_i \div 24
                            IN <<day_i, hr_i - day_i * 24, m, s>>
                       ELSE <<hr_i, m, s>>
               ELSE <<min_i, s>>
       ELSE <<time_s>>

-----------------------------------------------------------------------------
(* DevBench.report_str *)

(* list.index: the first position of x in seq *)
index(seq, x) == CHOOSE i \in 1..Len(seq) :
                    seq[i] = x /\ \A j \in 1..(i - 1) : seq[j] # x

(* the inner `while proc.parent` loop (lines 236-251): the next process to
   print and its depth; proc = None when the root was reached *)
RECURSIVE ascend(_, _, _)
ascend(ns, proc, depth) ==
    IF ns[proc].parent # None
    THEN LET par == ns[proc].parent
             idx == index(ns[par].children, proc) + 1
         IN IF idx <= Len(ns[par].children)
            THEN [proc |-> ns[par].children[idx], depth |-> depth]
            ELSE ascend(ns, par, depth - 1)
    ELSE [proc |-> None, depth |-> depth]

(* one printed line of the listing *)
report_line(ns, proc, depth) ==
    [ depth    |-> depth,
      name     |-> ns[proc].name,
      running  |-> ~ended(ns, proc),
      personal |-> time_str(ns[proc].personal_time),
      total    |-> time_str(ns[proc].total_time) ]

(* avgs[proc.name] = [proc] in place of the append *)
bucket_overwrite(avgs, ns, proc) ==
    [avgs EXCEPT ![ns[proc].name] = <<proc>>]

(* avgs[proc.name].append(proc); avgs maps a name to the processes of that
   name seen so far, a name not yet in the dict to <<>> *)
bucket(avgs, ns, proc) ==
    [avgs EXCEPT ![ns[proc].name] = Append(@, proc)]

(* the outer `while proc` loop (lines 216-251) *)
RECURSIVE traverse(_, _, _, _, _)
traverse(ns, proc, depth, lines, avgs) ==
    IF proc = None
    THEN [lines |-> lines, avgs |-> avgs]
    ELSE LET lines2 == Append(lines, report_line(ns, proc, depth))
             avgs2 == bucket(avgs, ns, proc)
         IN IF Len(ns[proc].children) # 0
            THEN traverse(ns, ns[proc].children[1], depth + 1, lines2, avgs2)
            ELSE LET up == ascend(ns, proc, depth)
                 IN traverse(ns, up.proc, up.depth, lines2, avgs2)

StoredNames == {lower(n) : n \in NameInputs} \cup {"root"}

(* sorted(avgs.items()) orders the rows by name *)
NameOrder == <<"a", "root">>

RECURSIVE sum_field(_, _, _)
sum_field(ns, procs, field) ==
    IF procs = <<>> THEN 0
    ELSE (IF field = "personal_time" THEN ns[Head(procs)].personal_time
                                     ELSE ns[Head(procs)].total_time)
         + sum_field(ns, Tail(procs), field)

(* lines 262-277: one row per name in the dict, sorted by name *)
by_name(ns, avgs) ==
    LET row(k) ==
            LET v == avgs[k]
                num_procs == Len(v)
                total_ptime == sum_field(ns, v, "personal_time")
                total_ttime == sum_field(ns, v, "total_time")
            IN [ name        |-> k,
                 tot_prs     |-> time_str(total_ptime),
                 tot_tot     |-> time_str(total_ttime),
                 avg_prs     |-> time_str(total_ptime \div num_procs),
                 avg_tot     |-> time_str(total_ttime \div num_procs),
                 occurrences |-> num_procs ]
        keys == SelectSeq(NameOrder, LAMBDA k : k \in DOMAIN avgs /\ avgs[k] # <<>>)
    IN [i \in 1..Len(keys) |-> row(keys[i])]

(* report_str: the listing and one of the two tails; ok = FALSE when
   time_so_far raised *)
report_str(ns, t) ==
    LET tr == traverse(ns, Root, 0, <<>>, [k \in StoredNames |-> <<>>])
        cur_proc == running_process(ns)
    IN IF ~ended(ns, cur_proc)
       THEN LET sofar == time_so_far(ns, cur_proc, t)
            IN [ ok    |-> sofar.ok,
                 lines |-> tr.lines,
                 tail  |-> "current",
                 path  |-> running_path(ns),
                 time  |-> time_str(sofar.value),
                 rows  |-> <<>> ]
       ELSE [ ok    |-> TRUE,
              lines |-> tr.lines,
              tail  |-> "by_name",
              path  |-> <<>>,
              time  |-> <<>>,
              rows  |-> by_name(ns, tr.avgs) ]

-----------------------------------------------------------------------------
(* bench.lock, a threading.RLock *)

Unlocked == [owner |-> "none", count |-> 0]

(* a lock that excludes nobody *)
can_acquire_always(l, th) == TRUE

can_acquire(l, th) == l.owner \in {"none", th}

acquire(l, th) == [owner |-> th, count |-> l.count + 1]

release(l) == IF l.count = 1 THEN Unlocked
              ELSE [owner |-> l.owner, count |-> l.count - 1]

-----------------------------------------------------------------------------
(* The DevBench API called from one thread, call by call *)

(* how a call ended: the name it returned (leave_process; "" for a call
   returning None), the text it returned (report_str), or the error raised *)
NoText == [ok |-> FALSE]
Returned(value) == [err |-> "none", value |-> value, text |-> NoText]
ReturnedText(text) == [err |-> "none", value |-> "", text |-> text]
Raised(e) == [err |-> e, value |-> "", text |-> NoText]

Idle == [pc |-> "api", name |-> "", at |-> None, t |-> 0]
NotStarted == [pc |-> "unstarted", buf |-> NoFile]

Init ==
    /\ nodes = <<Process("root", None, 0)>>
    /\ now = 0
    /\ lock = Unlocked
    /\ ret = Returned("")
    /\ session_file = NoFile
    /\ out_file = NoFile
    /\ resumed = FALSE
    /\ cmd = Idle
    /\ engaged = TRUE
    /\ prn = NotStarted
    /\ engaged_count = -1
    /\ cycles = 0
    /\ stable = nodes

(* time passes *)
Tick ==
    /\ now < MaxTime
    /\ now' = now + 1
    /\ UNCHANGED <<nodes, lock, ret, session_file, out_file, resumed,
                   cmd, engaged, prn, engaged_count, cycles, stable>>

(* DevBench.enter_process(name); when root.begin raises, the release of line
   175 is not reached and the lock stays acquired *)
EnterSpan(name) ==
    /\ can_acquire(lock, "main")
    /\ LET r == begin(nodes, Root, name, now)
       IN IF r.ok
          THEN /\ Len(nodes) < MaxNodes
               /\ nodes' = r.ns
               /\ lock' = release(acquire(lock, "main"))
               /\ ret' = Returned("")
          ELSE /\ lock.count < MaxHeld
               /\ nodes' = nodes
               /\ lock' = acquire(lock, "main")
               /\ ret' = Raised("already_ended")
    /\ stable' = nodes'
    /\ UNCHANGED <<now, session_file, out_file, resumed,
                   cmd, engaged, prn, engaged_count, cycles>>

(* DevBench.leave_process() *)
LeaveSpan ==
    /\ can_acquire(lock, "main")
    /\ \A p \in DOMAIN nodes : nodes[p].total_time < MaxTotal
    /\ LET r == end(nodes, Root, now)
       IN /\ nodes' = r.ns
          /\ ret' = Returned(r.name)
    /\ lock' = release(acquire(lock, "main"))
    /\ stable' = nodes'
    /\ UNCHANGED <<now, session_file, out_file, resumed,
                   cmd, engaged, prn, engaged_count, cycles>>

(* DevBench.savef(file) on the session file *)
SaveF ==
    /\ can_acquire(lock, "main")
    /\ session_file' = savef(nodes)
    /\ lock' = release(acquire(lock, "main"))
    /\ ret' = Returned("")
    /\ UNCHANGED <<nodes, now, out_file, resumed,
                   cmd, engaged, prn, engaged_count, cycles, stable>>

(* a later run of main() resumes the session (lines 370-378): a new DevBench
   with a new lock, loadf on the session file the earlier run left, then
   test_open(..., 'w'), which opens the existing out and session files with
   'w' and closes them (lines 348-349): both are empty afterwards.  On an
   empty session file json.load raises ValueError inside loadf, the lock
   acquired, the root the one DevBench() made *)
Resume ==
    /\ session_file # NoFile
    /\ IF session_file = EmptyFile
       THEN /\ nodes' = <<Process("root", None, now)>>
            /\ resumed' = resumed
            /\ lock' = acquire(Unlocked, "main")
            /\ ret' = Raised("malformed_snapshot")
            /\ UNCHANGED <<session_file, out_file>>
       ELSE /\ nodes' = loadf(session_file)
            /\ resumed' = TRUE
            /\ lock' = release(acquire(Unlocked, "main"))
            /\ ret' = Returned("")
            /\ session_file' = EmptyFile
            /\ out_file' = IF out_file = NoFile THEN NoFile ELSE EmptyFile
    /\ stable' = nodes'
    /\ UNCHANGED <<now, cmd, engaged, prn, engaged_count, cycles>>

(* DevBench.report_str() *)
Render ==
    /\ can_acquire(lock, "main")
    /\ LET r == report_str(nodes, now)
       IN IF r.ok
          THEN /\ ret' = ReturnedText(r)
               /\ lock' = release(acquire(lock, "main"))
          ELSE /\ lock.count < MaxHeld
               /\ ret' = Raised("invalid_query")
               /\ lock' = acquire(lock, "main")
    /\ UNCHANGED <<nodes, now, session_file, out_file, resumed,
                   cmd, engaged, prn, engaged_count, cycles, stable>>

Next ==
    \/ Tick
    \/ \E name \in NameInputs : EnterSpan(name)
    \/ LeaveSpan
    \/ Render

Spec == Init /\ [][Next]_vars

(* the same calls, with sessions saved and resumed *)
NextSnapshot ==
    \/ Tick
    \/ \E name \in NameInputs : EnterSpan(name)
    \/ LeaveSpan
    \/ SaveF
    \/ Resume

SpecSnapshot == Init /\ [][NextSnapshot]_vars

(* The calls as main() makes them: enter_process and leave_process only
   while bench.done() is false (lines 397-399 and 403), with the tree saved
   and loaded back once *)

EnterRunning(name) == ~done(nodes) /\ EnterSpan(name)

LeaveRunning == ~done(nodes) /\ LeaveSpan

(* DevBench.savef into a buffer and DevBench.loadf from that buffer *)
Reload ==
    /\ ~resumed
    /\ can_acquire(lock, "main")
    /\ nodes' = loadf(savef(nodes))
    /\ resumed' = TRUE
    /\ lock' = release(acquire(lock, "main"))
    /\ ret' = Returned("")
    /\ stable' = nodes'
    /\ UNCHANGED <<now, session_file, out_file,
                   cmd, engaged, prn, engaged_count, cycles>>

NextReload ==
    \/ Tick
    \/ \E name \in NameInputs : EnterRunning(name)
    \/ LeaveRunning
    \/ Reload
    \/ Render

SpecReload == Init /\ [][NextReload]_vars

(* one session: no load, and no leave_process once the root has ended *)
NextOneSession ==
    \/ Tick
    \/ \E name \in NameInputs : EnterSpan(name)
    \/ LeaveRunning

SpecOneSession == Init /\ [][NextOneSession]_vars

-----------------------------------------------------------------------------
(* The session of main(): the command loop and the DevPrinter thread *)

(* the process a begin call on p ends up in (lines 94, 100, 105-107) *)
RECURSIVE begin_target(_, _)
begin_target(ns, p) ==
    IF Len(ns[p].children) = 0 \/ ended(ns, last_child(ns, p))
    THEN p
    ELSE begin_target(ns, last_child(ns, p))

(* the process an end call on p ends (lines 111, 115, 119-122) *)
RECURSIVE end_target(_, _)
end_target(ns, p) ==
    IF Len(ns[p].children) = 0 \/ ended(ns, last_child(ns, p))
    THEN p
    ELSE end_target(ns, last_child(ns, p))

(* the time p was last seen doing its own thing (lines 96/102, 113/117) *)
last_marker(ns, p) ==
    IF Len(ns[p].children) = 0 THEN ns[p].begin_time
    ELSE ns[last_child(ns, p)].end_time

(* can_loop with `rv = self.engaged_count >= 0`: one iteration too many *)
can_loop_once_more(count) ==
    IF count = -1
    THEN [rv |-> TRUE, count |-> count]
    ELSE [rv |-> count - 1 >= 0, count |-> count - 1]

(* can_loop that stops as soon as terminate() was called *)
can_loop_stop_at_once(count) ==
    IF count = -1
    THEN [rv |-> TRUE, count |-> count]
    ELSE [rv |-> FALSE, count |-> count - 1]

(* DevPrinter.can_loop: the value returned and the new engaged_count *)
can_loop(count) ==
    IF count = -1
    THEN [rv |-> TRUE, count |-> count]
    ELSE [rv |-> count - 1 > 0, count |-> count - 1]

(* what the user types as a process name in the session runs *)
SessionNameInputs == {"A"}

(* main at the top of its command loop, about to call bench.running_path()
   for the prompt (line 385), and main inside raw_input *)
AtLoopTop == [pc |-> "path_acquire", name |-> "", at |-> None, t |-> 0]
AtPrompt == [pc |-> "prompt", name |-> "", at |-> None, t |-> 0]
Started == [pc |-> "can_loop", buf |-> NoFile]

(* main() after printer.start(), in a project directory without a session *)
SessionInit ==
    /\ nodes = <<Process("root", None, 0)>>
    /\ now = 0
    /\ lock = Unlocked
    /\ ret = Returned("")
    /\ session_file = NoFile
    /\ out_file = NoFile
    /\ resumed = FALSE
    /\ cmd = AtLoopTop
    /\ engaged = TRUE
    /\ prn = Started
    /\ engaged_count = -1
    /\ cycles = 0
    /\ stable = nodes

SessionTick ==
    /\ now < MaxSessionTime
    /\ now' = now + 1
    /\ UNCHANGED <<nodes, lock, ret, session_file, out_file, resumed,
                   cmd, engaged, prn, engaged_count, cycles, stable>>

(* bench.running_path() for the prompt, line 197 *)
PathAcquire ==
    /\ cmd.pc = "path_acquire"
    /\ can_acquire(lock, "main")
    /\ lock' = acquire(lock, "main")
    /\ cmd' = [cmd EXCEPT !.pc = "path_release"]
    /\ UNCHANGED <<nodes, now, ret, session_file, out_file, resumed,
                   engaged, prn, engaged_count, cycles, stable>>

(* running_path, lines 198-208: the walk, the release, and main in raw_input
   with the path in the prompt *)
PathRelease ==
    /\ cmd.pc = "path_release"
    /\ lock' = release(lock)
    /\ cmd' = AtPrompt
    /\ UNCHANGED <<nodes, now, ret, session_file, out_file, resumed,
                   engaged, prn, engaged_count, cycles, stable>>

(* an exit word was typed (lines 389-391) *)
CmdQuit ==
    /\ cmd.pc = "prompt"
    /\ engaged' = FALSE
    /\ cmd' = [cmd EXCEPT !.pc = "drain"]
    /\ UNCHANGED <<nodes, now, lock, ret, session_file, out_file, resumed,
                   prn, engaged_count, cycles, stable>>

(* a process name was typed (lines 392-394) *)
CmdEnter(name) ==
    /\ cmd.pc = "prompt"
    /\ Len(nodes) < MaxSessionNodes
    /\ cmd' = [cmd EXCEPT !.pc = "enter_acquire", !.name = lower(name)]
    /\ UNCHANGED <<nodes, now, lock, ret, session_file, out_file, resumed,
                   engaged, prn, engaged_count, cycles, stable>>

(* "<" was typed (lines 395-396) *)
CmdLeave ==
    /\ cmd.pc = "prompt"
    /\ cmd' = [cmd EXCEPT !.pc = "leave_acquire"]
    /\ UNCHANGED <<nodes, now, lock, ret, session_file, out_file, resumed,
                   engaged, prn, engaged_count, cycles, stable>>

(* enter_process, line 173 *)
EnterAcquire ==
    /\ cmd.pc = "enter_acquire"
    /\ can_acquire(lock, "main")
    /\ lock' = acquire(lock, "main")
    /\ cmd' = [cmd EXCEPT !.pc = "enter_begin"]
    /\ UNCHANGED <<nodes, now, ret, session_file, out_file, resumed,
                   engaged, prn, engaged_count, cycles, stable>>

(* root.begin(name) up to _add_time (lines 90-96, 100-102); the RuntimeError
   of line 91 ends main() with the lock still acquired *)
EnterBegin ==
    /\ cmd.pc = "enter_begin"
    /\ IF ended(nodes, Root)
       THEN /\ cmd' = [cmd EXCEPT !.pc = "crashed"]
            /\ ret' = Raised("already_ended")
            /\ nodes' = nodes
       ELSE LET p == begin_target(nodes, Root)
            IN /\ nodes' = _add_time(nodes, p, now - last_marker(nodes, p))
               /\ cmd' = [cmd EXCEPT !.pc = "enter_append", !.at = p, !.t = now]
               /\ ret' = ret
    /\ UNCHANGED <<now, lock, session_file, out_file, resumed,
                   engaged, prn, engaged_count, cycles, stable>>

(* self.children.append(new_child) (lines 97, 103) *)
EnterAppend ==
    /\ cmd.pc = "enter_append"
    /\ nodes' = append_child(nodes, cmd.at, Process(cmd.name, cmd.at, cmd.t))
    /\ cmd' = [cmd EXCEPT !.pc = "enter_release"]
    /\ UNCHANGED <<now, lock, ret, session_file, out_file, resumed,
                   engaged, prn, engaged_count, cycles, stable>>

(* enter_process, line 175, and back to the top of the command loop *)
EnterRelease ==
    /\ cmd.pc = "enter_release"
    /\ lock' = release(lock)
    /\ stable' = nodes
    /\ ret' = Returned("")
    /\ cmd' = AtLoopTop
    /\ UNCHANGED <<nodes, now, session_file, out_file, resumed,
                   engaged, prn, engaged_count, cycles>>

(* leave_process, line 178 *)
LeaveAcquire ==
    /\ cmd.pc = "leave_acquire"
    /\ can_acquire(lock, "main")
    /\ lock' = acquire(lock, "main")
    /\ cmd' = [cmd EXCEPT !.pc = "leave_end"]
    /\ UNCHANGED <<nodes, now, ret, session_file, out_file, resumed,
                   engaged, prn, engaged_count, cycles, stable>>

(* root.end() down to self.end_time = time.time() (lines 112, 116) *)
LeaveSetEnd ==
    /\ cmd.pc = "leave_end"
    /\ LET p == end_target(nodes, Root)
       IN /\ nodes' = set_end_time(nodes, p, now)
          /\ cmd' = [cmd EXCEPT !.pc = "leave_add", !.at = p, !.name = nodes[p].name]
    /\ UNCHANGED <<now, lock, ret, session_file, out_file, resumed,
                   engaged, prn, engaged_count, cycles, stable>>

(* self._add_time(...) of the process that ended (lines 113, 117) *)
LeaveAddTime ==
    /\ cmd.pc = "leave_add"
    /\ nodes' = _add_time(nodes, cmd.at,
                          nodes[cmd.at].end_time - last_marker(nodes, cmd.at))
    /\ cmd' = [cmd EXCEPT !.pc = IF cmd.at = Root THEN "leave_release"
                                                  ELSE "leave_return"]
    /\ UNCHANGED <<now, lock, ret, session_file, out_file, resumed,
                   engaged, prn, engaged_count, cycles, stable>>

(* back in the caller's end(), one level up (lines 124-128) *)
LeaveReturn ==
    /\ cmd.pc = "leave_return"
    /\ LET c == cmd.at
           p == nodes[c].parent
       IN /\ nodes' = IF ended(nodes, c) THEN add_child_total(nodes, p, c)
                                         ELSE nodes
          /\ cmd' = [cmd EXCEPT !.at = p,
                                !.pc = IF p = Root THEN "leave_release"
                                                   ELSE "leave_return"]
    /\ UNCHANGED <<now, lock, ret, session_file, out_file, resumed,
                   engaged, prn, engaged_count, cycles, stable>>

(* leave_process, lines 180-181, then lines 397-399 in the command loop, or
   back to the drain loop of line 403 *)
LeaveRelease ==
    /\ cmd.pc = "leave_release"
    /\ lock' = release(lock)
    /\ stable' = nodes
    /\ ret' = Returned(cmd.name)
    /\ IF engaged /\ ~ended(nodes, Root)
       THEN cmd' = AtLoopTop /\ engaged' = engaged
       ELSE cmd' = [AtPrompt EXCEPT !.pc = "drain"] /\ engaged' = FALSE
    /\ UNCHANGED <<nodes, now, session_file, out_file, resumed,
                   prn, engaged_count, cycles>>

(* while not bench.done(): bench.leave_process() (lines 403-404) *)
Drain ==
    /\ cmd.pc = "drain"
    /\ cmd' = [cmd EXCEPT !.pc = IF done(nodes) THEN "terminate"
                                                ELSE "leave_acquire"]
    /\ UNCHANGED <<nodes, now, lock, ret, session_file, out_file, resumed,
                   engaged, prn, engaged_count, cycles, stable>>

(* printer.terminate() (lines 303-306, called at line 406) *)
Terminate ==
    /\ cmd.pc = "terminate"
    /\ engaged_count' = 2
    /\ cycles' = 0
    /\ cmd' = [cmd EXCEPT !.pc = "join"]
    /\ UNCHANGED <<nodes, now, lock, ret, session_file, out_file, resumed,
                   engaged, prn, stable>>

(* printer.join() (line 407): returns once run() has ended, by returning or
   by an exception *)
Join ==
    /\ cmd.pc = "join"
    /\ prn.pc \in {"done", "crashed", "io_error"}
    /\ cmd' = [cmd EXCEPT !.pc = "exited"]
    /\ UNCHANGED <<nodes, now, lock, ret, session_file, out_file, resumed,
                   engaged, prn, engaged_count, cycles, stable>>

(* while self.can_loop() (line 319) *)
CanLoop ==
    /\ prn.pc \in {"can_loop"}
    /\ LET r == can_loop(engaged_count)
       IN /\ engaged_count' = r.count
          /\ prn' = [prn EXCEPT !.pc = IF r.rv THEN "open_out" ELSE "done"]
          /\ cycles' = IF r.rv /\ engaged_count # -1 THEN cycles + 1 ELSE cycles
    /\ UNCHANGED <<nodes, now, lock, ret, session_file, out_file, resumed,
                   cmd, engaged, stable>>

(* f = open(self.out_file_name, 'w') (line 320) *)
OpenOut ==
    /\ prn.pc = "open_out"
    /\ out_file' = EmptyFile
    /\ prn' = [prn EXCEPT !.pc = "render_acquire"]
    /\ UNCHANGED <<nodes, now, lock, ret, session_file, resumed,
                   cmd, engaged, engaged_count, cycles, stable>>

(* report_str, line 211 *)
RenderAcquire ==
    /\ prn.pc = "render_acquire"
    /\ can_acquire(lock, "printer")
    /\ lock' = acquire(lock, "printer")
    /\ prn' = [prn EXCEPT !.pc = "render"]
    /\ UNCHANGED <<nodes, now, ret, session_file, out_file, resumed,
                   cmd, engaged, engaged_count, cycles, stable>>

(* report_str, lines 212-277; its calls of running_process and running_path
   acquire and release the lock the thread already holds; the RuntimeError
   of time_so_far ends the thread with the lock still acquired *)
RenderRead ==
    /\ prn.pc = "render"
    /\ LET r == report_str(nodes, now)
       IN prn' = IF r.ok THEN [pc |-> "render_release", buf |-> r]
                         ELSE [prn EXCEPT !.pc = "crashed"]
    /\ UNCHANGED <<nodes, now, lock, ret, session_file, out_file, resumed,
                   cmd, engaged, engaged_count, cycles, stable>>

(* report_str, lines 278-279 *)
RenderRelease ==
    /\ prn.pc = "render_release"
    /\ lock' = release(lock)
    /\ prn' = [prn EXCEPT !.pc = "write_out"]
    /\ UNCHANGED <<nodes, now, ret, session_file, out_file, resumed,
                   cmd, engaged, engaged_count, cycles, stable>>

(* f.write(...); f.close() (lines 321-322) *)
WriteOut ==
    /\ prn.pc = "write_out"
    /\ out_file' = prn.buf
    /\ prn' = [pc |-> "open_session", buf |-> NoFile]
    /\ UNCHANGED <<nodes, now, lock, ret, session_file, resumed,
                   cmd, engaged, engaged_count, cycles, stable>>

(* f = open(self.session_file_name, 'w') (line 323) *)
OpenSession ==
    /\ prn.pc = "open_session"
    /\ session_file' = EmptyFile
    /\ prn' = [prn EXCEPT !.pc = "save_acquire"]
    /\ UNCHANGED <<nodes, now, lock, ret, out_file, resumed,
                   cmd, engaged, engaged_count, cycles, stable>>

(* savef, line 287 *)
SaveAcquire ==
    /\ prn.pc = "save_acquire"
    /\ can_acquire(lock, "printer")
    /\ lock' = acquire(lock, "printer")
    /\ prn' = [prn EXCEPT !.pc = "save"]
    /\ UNCHANGED <<nodes, now, ret, session_file, out_file, resumed,
                   cmd, engaged, engaged_count, cycles, stable>>

(* json.dump(self.root, file, ...) (line 288): the document goes into the
   buffer of the file object, the file on disk stays as open(..., 'w') left
   it *)
SaveDump ==
    /\ prn.pc = "save"
    /\ prn' = [pc |-> "save_release", buf |-> savef(nodes)]
    /\ UNCHANGED <<nodes, now, lock, ret, session_file, out_file, resumed,
                   cmd, engaged, engaged_count, cycles, stable>>

(* savef, line 289 *)
SaveRelease ==
    /\ prn.pc = "save_release"
    /\ lock' = release(lock)
    /\ prn' = [prn EXCEPT !.pc = "close_session"]
    /\ UNCHANGED <<nodes, now, ret, session_file, out_file, resumed,
                   cmd, engaged, engaged_count, cycles, stable>>

(* f.close() (line 325): the buffered document reaches the file *)
CloseSession ==
    /\ prn.pc = "close_session"
    /\ session_file' = prn.buf
    /\ prn' = [pc |-> "sleep", buf |-> NoFile]
    /\ UNCHANGED <<nodes, now, lock, ret, out_file, resumed,
                   cmd, engaged, engaged_count, cycles, stable>>

(* time.sleep(self.delay) (line 326) *)
Sleep ==
    /\ prn.pc = "sleep"
    /\ prn' = [prn EXCEPT !.pc = "can_loop"]
    /\ UNCHANGED <<nodes, now, lock, ret, session_file, out_file, resumed,
                   cmd, engaged, engaged_count, cycles, stable>>

MainStep ==
    \/ PathAcquire
    \/ PathRelease
    \/ CmdQuit
    \/ \E name \in SessionNameInputs : CmdEnter(name)
    \/ CmdLeave
    \/ EnterAcquire
    \/ EnterBegin
    \/ EnterAppend
    \/ EnterRelease
    \/ LeaveAcquire
    \/ LeaveSetEnd
    \/ LeaveAddTime
    \/ LeaveReturn
    \/ LeaveRelease
    \/ Drain
    \/ Terminate
    \/ Join

PrinterStep ==
    \/ CanLoop
    \/ OpenOut
    \/ RenderAcquire
    \/ RenderRead
    \/ RenderRelease
    \/ WriteOut
    \/ OpenSession
    \/ SaveAcquire
    \/ SaveDump
    \/ SaveRelease
    \/ CloseSession
    \/ Sleep

SessionNext == SessionTick \/ MainStep \/ PrinterStep

SpecSession == SessionInit /\ [][SessionNext]_vars

-----------------------------------------------------------------------------
(* The session with file operations that fail.  DevPrinter.run (lines
   318-326) has no try/except: an IOError raised by open, write or json.dump
   leaves run(), and the thread ends. *)

(* open(self.out_file_name, 'w') raises (line 320): the file is not touched *)
OpenOutFails ==
    /\ prn.pc = "open_out"
    /\ prn' = [prn EXCEPT !.pc = "io_error"]
    /\ UNCHANGED <<nodes, now, lock, ret, session_file, out_file, resumed,
                   cmd, engaged, engaged_count, cycles, stable>>

(* f.write(...) raises (line 321): the file stays as open(..., 'w') left it *)
WriteOutFails ==
    /\ prn.pc = "write_out"
    /\ prn' = [pc |-> "io_error", buf |-> NoFile]
    /\ UNCHANGED <<nodes, now, lock, ret, session_file, out_file, resumed,
                   cmd, engaged, engaged_count, cycles, stable>>

(* open(self.session_file_name, 'w') raises (line 323) *)
OpenSessionFails ==
    /\ prn.pc = "open_session"
    /\ prn' = [prn EXCEPT !.pc = "io_error"]
    /\ UNCHANGED <<nodes, now, lock, ret, session_file, out_file, resumed,
                   cmd, engaged, engaged_count, cycles, stable>>

(* json.dump raises inside savef (line 288): the release of line 289 is not
   reached, the thread ends owning bench.lock *)
SaveDumpFails ==
    /\ prn.pc = "save"
    /\ prn' = [prn EXCEPT !.pc = "io_error"]
    /\ UNCHANGED <<nodes, now, lock, ret, session_file, out_file, resumed,
                   cmd, engaged, engaged_count, cycles, stable>>

(* f.close() raises when it flushes the document (line 325): the file stays
   empty; the lock was released at line 289 *)
CloseSessionFails ==
    /\ prn.pc = "close_session"
    /\ prn' = [pc |-> "io_error", buf |-> NoFile]
    /\ UNCHANGED <<nodes, now, lock, ret, session_file, out_file, resumed,
                   cmd, engaged, engaged_count, cycles, stable>>

IOError ==
    \/ OpenOutFails
    \/ WriteOutFails
    \/ OpenSessionFails
    \/ SaveDumpFails
    \/ CloseSessionFails

SessionIONext == SessionTick \/ MainStep \/ PrinterStep \/ IOError

SpecSessionIO == SessionInit /\ [][SessionIONext]_vars

-----------------------------------------------------------------------------
(* The session run a second time in the same project directory, after the
   first process has exited or has been killed, wherever it was *)

(* what the user types as a process name in these runs *)
RestartNameInputs == {"root"}

(* main() from bench = DevBench() to printer.start() (lines 370-383) when the
   session file exists (line 373): loadf, then test_open(..., 'w') opens the
   existing out and session files with 'w' and closes them (lines 348-349,
   377-378).  json.load raises ValueError on an empty file: main() ends in
   loadf with the lock acquired, before the printer is made. *)
Restart ==
    /\ ~resumed
    /\ session_file # NoFile
    /\ resumed' = TRUE
    /\ IF session_file = EmptyFile
       THEN /\ nodes' = <<Process("root", None, now)>>
            /\ lock' = acquire(Unlocked, "main")
            /\ ret' = Raised("malformed_snapshot")
            /\ cmd' = [AtPrompt EXCEPT !.pc = "crashed"]
            /\ prn' = NotStarted
            /\ UNCHANGED <<session_file, out_file>>
       ELSE /\ nodes' = loadf(session_file)
            /\ lock' = release(acquire(Unlocked, "main"))
            /\ ret' = Returned("")
            /\ cmd' = AtLoopTop
            /\ prn' = Started
            /\ session_file' = EmptyFile
            /\ out_file' = IF out_file = NoFile THEN NoFile ELSE EmptyFile
    /\ engaged' = TRUE
    /\ engaged_count' = -1
    /\ cycles' = 0
    /\ stable' = nodes'
    /\ UNCHANGED now

RestartMainStep ==
    \/ PathAcquire
    \/ PathRelease
    \/ CmdQuit
    \/ \E name \in RestartNameInputs : CmdEnter(name)
    \/ CmdLeave
    \/ EnterAcquire
    \/ EnterBegin
    \/ EnterAppend
    \/ EnterRelease
    \/ LeaveAcquire
    \/ LeaveSetEnd
    \/ LeaveAddTime
    \/ LeaveReturn
    \/ LeaveRelease
    \/ Drain
    \/ Terminate
    \/ Join

RestartNext == SessionTick \/ RestartMainStep \/ PrinterStep \/ Restart

SpecRestart == SessionInit /\ [][RestartNext]_vars

-----------------------------------------------------------------------------
(* Two threads on one DevBench.  The command thread calls enter_process,
   leave_process and loadf in any order and any number, whether or not the
   root has ended, each call in the steps it takes under bench.lock.  The
   second thread calls report_str again and again, as DevPrinter.run does at
   line 321. *)

(* the second thread about to call bench.report_str() *)
Reading == [pc |-> "render_acquire", buf |-> NoFile]

(* the caller between two calls, the second thread started *)
CallsInit ==
    /\ nodes = <<Process("root", None, 0)>>
    /\ now = 0
    /\ lock = Unlocked
    /\ ret = Returned("")
    /\ session_file = NoFile
    /\ out_file = NoFile
    /\ resumed = FALSE
    /\ cmd = Idle
    /\ engaged = TRUE
    /\ prn = Reading
    /\ engaged_count = -1
    /\ cycles = 0
    /\ stable = nodes

(* bench.enter_process(name) is called; on an ended root the call will raise
   and leave the lock acquired once more *)
CallEnter(name) ==
    /\ cmd.pc = "api"
    /\ IF done(nodes) THEN lock.count < MaxHeld
                      ELSE Len(nodes) < MaxSessionNodes
    /\ cmd' = [cmd EXCEPT !.pc = "enter_acquire", !.name = lower(name)]
    /\ UNCHANGED <<nodes, now, lock, ret, session_file, out_file, resumed,
                   engaged, prn, engaged_count, cycles, stable>>

(* enter_process, line 175, and back in the caller *)
CallEnterRelease ==
    /\ cmd.pc = "enter_release"
    /\ lock' = release(lock)
    /\ stable' = nodes
    /\ ret' = Returned("")
    /\ cmd' = Idle
    /\ UNCHANGED <<nodes, now, session_file, out_file, resumed,
                   engaged, prn, engaged_count, cycles>>

(* the RuntimeError of line 91 reaches the caller, who goes on; line 175 was
   not run *)
CallEnterRaised ==
    /\ cmd.pc = "crashed"
    /\ cmd' = Idle
    /\ UNCHANGED <<nodes, now, lock, ret, session_file, out_file, resumed,
                   engaged, prn, engaged_count, cycles, stable>>

(* bench.leave_process() is called *)
CallLeave ==
    /\ cmd.pc = "api"
    /\ \A p \in DOMAIN nodes : nodes[p].total_time < MaxTotal
    /\ cmd' = [cmd EXCEPT !.pc = "leave_acquire"]
    /\ UNCHANGED <<nodes, now, lock, ret, session_file, out_file, resumed,
                   engaged, prn, engaged_count, cycles, stable>>

(* leave_process, lines 180-181, and back in the caller *)
CallLeaveRelease ==
    /\ cmd.pc = "leave_release"
    /\ lock' = release(lock)
    /\ stable' = nodes
    /\ ret' = Returned(cmd.name)
    /\ cmd' = Idle
    /\ UNCHANGED <<nodes, now, session_file, out_file, resumed,
                   engaged, prn, engaged_count, cycles>>

(* bench.loadf(file) is called; the file holds the snapshot savef writes of
   the tree as it is when loadf reads it.  A snapshot saved earlier gives
   the tree that a load made at the time of that save gives, with a later
   clock. *)
CallLoad ==
    /\ cmd.pc = "api"
    /\ cmd' = [cmd EXCEPT !.pc = "load_acquire"]
    /\ UNCHANGED <<nodes, now, lock, ret, session_file, out_file, resumed,
                   engaged, prn, engaged_count, cycles, stable>>

(* loadf, line 282 *)
LoadAcquire ==
    /\ cmd.pc = "load_acquire"
    /\ can_acquire(lock, "main")
    /\ lock' = acquire(lock, "main")
    /\ cmd' = [cmd EXCEPT !.pc = "load_root"]
    /\ UNCHANGED <<nodes, now, ret, session_file, out_file, resumed,
                   engaged, prn, engaged_count, cycles, stable>>

(* self.root = json.load(file, object_hook=...) (line 283) *)
LoadRoot ==
    /\ cmd.pc = "load_root"
    /\ nodes' = loadf(savef(nodes))
    /\ resumed' = TRUE
    /\ cmd' = [cmd EXCEPT !.pc = "load_release"]
    /\ UNCHANGED <<now, lock, ret, session_file, out_file,
                   engaged, prn, engaged_count, cycles, stable>>

(* loadf, line 284, and back in the caller *)
LoadRelease ==
    /\ cmd.pc = "load_release"
    /\ lock' = release(lock)
    /\ stable' = nodes
    /\ ret' = Returned("")
    /\ cmd' = Idle
    /\ UNCHANGED <<nodes, now, session_file, out_file, resumed,
                   engaged, prn, engaged_count, cycles>>

CallerStep ==
    \/ \E name \in NameInputs : CallEnter(name)
    \/ EnterAcquire
    \/ EnterBegin
    \/ EnterAppend
    \/ CallEnterRelease
    \/ CallEnterRaised
    \/ CallLeave
    \/ LeaveAcquire
    \/ LeaveSetEnd
    \/ LeaveAddTime
    \/ LeaveReturn
    \/ CallLeaveRelease
    \/ CallLoad
    \/ LoadAcquire
    \/ LoadRoot
    \/ LoadRelease

(* report_str, lines 278-279: the text is returned, and the thread comes to
   its next call of report_str *)
ReportRelease ==
    /\ prn.pc = "render_release"
    /\ lock' = release(lock)
    /\ prn' = Reading
    /\ UNCHANGED <<nodes, now, ret, session_file, out_file, resumed,
                   cmd, engaged, engaged_count, cycles, stable>>

ReaderStep ==
    \/ RenderAcquire
    \/ RenderRead
    \/ ReportRelease

CallsNext == SessionTick \/ CallerStep \/ ReaderStep

SpecCalls == CallsInit /\ [][CallsNext]_vars

-----------------------------------------------------------------------------
(* Properties of the call sequences *)

RECURSIVE SumOver(_, _, _)
SumOver(ns, ps, field) ==
    IF ps = {} THEN 0
    ELSE LET p == CHOOSE q \in ps : TRUE
         IN (IF field = "personal_time" THEN ns[p].personal_time
                                        ELSE ns[p].total_time)
            + SumOver(ns, ps \ {p}, field)

Children(ns, p) == {ns[p].children[i] : i \in 1..Len(ns[p].children)}

EndedChildren(ns, p) == {c \in Children(ns, p) : ended(ns, c)}

Open(ns) == {p \in DOMAIN ns : ~ended(ns, p)}

(* C1: after every enterSpan/leaveSpan call, every node's totalTime is its
   personalTime plus the totalTime of its children that have ended; running
   children contribute nothing. *)
C1_TotalIsPersonalPlusEndedChildren ==
    \A p \in DOMAIN nodes :
        nodes[p].total_time
            = nodes[p].personal_time
              + SumOver(nodes, EndedChildren(nodes, p), "total_time")

(* a node with an ended child that took time and a child still running *)
C1_Witness ==
    \E p \in DOMAIN nodes :
        /\ \E c \in EndedChildren(nodes, p) : nodes[c].total_time > 0
        /\ \E c \in Children(nodes, p) : ~ended(nodes, c)
        /\ nodes[p].personal_time > 0

(* C2 as stated: while the calls never left more often than they entered
   (the root is open), the root's totalTime is at least the sum of
   personalTime over all nodes, open ones included. *)
C2_RootTotalCoversAllPersonal ==
    ~done(nodes) =>
        nodes[Root].total_time >= SumOver(nodes, DOMAIN nodes, "personal_time")

(* the root, and the nodes that have ended together with all their
   ancestors below the root: what has been handed up to the root *)
RECURSIVE HandedUp(_, _)
HandedUp(ns, p) ==
    \/ p = Root
    \/ ended(ns, p) /\ HandedUp(ns, ns[p].parent)

(* C2 amended: the root's totalTime is at least the sum of personalTime over
   the root and the nodes inside subtrees of the root's ended children; the
   nodes inside a still-running child of the root are not counted yet. *)
C2_RootTotalCoversHandedUpPersonal ==
    nodes[Root].total_time
        >= SumOver(nodes, {p \in DOMAIN nodes : HandedUp(nodes, p)},
                   "personal_time")

(* an open span that has personal time which the root has not seen, beside
   time the root has *)
C2_Witness ==
    /\ nodes[Root].total_time > 0
    /\ \E p \in Open(nodes) \ {Root} : nodes[p].personal_time > 0

(* C7: the open nodes form one chain from the root: each open non-root node
   is the last child of an open parent, no node has two open children; and
   the walk of running_process/running_path starts at the root, steps from
   a node to one of its children, ends at a node with no children or an
   ended last child, and visits below the root exactly the open nodes (the
   root alone once the root has ended). *)
C7_ActivePath ==
    LET w == running_walk(nodes, Root)
        visited == {w[i] : i \in 1..Len(w)}
    IN /\ \A p \in Open(nodes) \ {Root} :
              /\ nodes[p].parent \in Open(nodes)
              /\ last_child(nodes, nodes[p].parent) = p
       /\ \A p \in DOMAIN nodes :
              Cardinality(Children(nodes, p) \cap Open(nodes)) <= 1
       /\ w[1] = Root
       /\ \A i \in 1..(Len(w) - 1) : w[i + 1] \in Children(nodes, w[i])
       /\ \/ Len(nodes[w[Len(w)]].children) = 0
          \/ ended(nodes, last_child(nodes, w[Len(w)]))
       /\ visited \ {Root} = Open(nodes) \ {Root}
       /\ ~done(nodes) => visited = Open(nodes)
       /\ running_process(nodes) = w[Len(w)]
       /\ running_path(nodes) = [i \in 1..Len(w) |-> nodes[w[i]].name]

(* a running span two levels below the root *)
C7_Witness ==
    /\ Len(running_walk(nodes, Root)) = 3
    /\ Cardinality(Open(nodes)) = 3

(* C8 as stated: once a node has an endTime, no later call changes its
   endTime, personalTime, totalTime or number of children. *)
C8_EndedNodesFrozen ==
    [][\A p \in DOMAIN nodes :
          ended(nodes, p) =>
              /\ nodes'[p].end_time = nodes[p].end_time
              /\ nodes'[p].personal_time = nodes[p].personal_time
              /\ nodes'[p].total_time = nodes[p].total_time
              /\ Len(nodes'[p].children) = Len(nodes[p].children)]_vars

(* C9 as stated: no enterSpan call fails with the already-ended error. *)
C9_BeginNeverFails == ret.err # "already_ended"

(* C9 amended: an enterSpan call fails with the already-ended error only
   when it is made after the root itself has ended; no call made while the
   root is open fails. *)
C9_BeginFailsOnlyOnEndedRoot == ret.err = "already_ended" => done(nodes)

(* enterSpan was called on a root that had ended after spans were run *)
C9_Witness == ret.err = "already_ended" /\ Len(nodes) > 1

(* the nodes of the subtree of p, parent before children, siblings in
   insertion order, each with its depth *)
RECURSIVE PreOrder(_, _, _)
PreOrder(ns, p, depth) ==
    LET RECURSIVE each(_)
        each(cs) == IF cs = <<>> THEN <<>>
                    ELSE PreOrder(ns, Head(cs), depth + 1) \o each(Tail(cs))
    IN <<[proc |-> p, depth |-> depth]>> \o each(ns[p].children)

Named(ns, k) == {p \in DOMAIN ns : ns[p].name = k}

(* C10: when the root has ended, the report lists every node once, parent
   before children and siblings in insertion order, and gives for every
   name in the tree, in name order, the number of nodes of that name and
   the sums and averages of personalTime and totalTime over those nodes. *)
C10_PerNameAggregates ==
    (ret.text # NoText /\ done(nodes)) =>
        LET po == PreOrder(nodes, Root, 0)
            names == SelectSeq(NameOrder, LAMBDA k : Named(nodes, k) # {})
        IN /\ Len(po) = Len(nodes)
           /\ ret.text.tail = "by_name"
           /\ ret.text.lines
                = [i \in 1..Len(po) |-> report_line(nodes, po[i].proc, po[i].depth)]
           /\ Len(ret.text.rows) = Len(names)
           /\ \A i \in 1..Len(names) :
                LET k == names[i]
                    n == Cardinality(Named(nodes, k))
                    prs == SumOver(nodes, Named(nodes, k), "personal_time")
                    tot == SumOver(nodes, Named(nodes, k), "total_time")
                IN ret.text.rows[i]
                     = [ name        |-> k,
                         tot_prs     |-> time_str(prs),
                         tot_tot     |-> time_str(tot),
                         avg_prs     |-> time_str(prs \div n),
                         avg_tot     |-> time_str(tot \div n),
                         occurrences |-> n ]

(* enter a, leave, enter a, leave, leave: the report counts a twice *)
C10_Witness ==
    /\ ret.text # NoText
    /\ done(nodes)
    /\ nodes[Root].children = <<2, 3>>
    /\ \E i \in 1..Len(ret.text.rows) :
          ret.text.rows[i].name = "a" /\ ret.text.rows[i].occurrences = 2

(* the fields of p that an action left alone *)
Same(ns1, ns2, p, fields) == \A f \in fields : ns2[p][f] = ns1[p][f]

AllFields == {"name", "parent", "children", "begin_time", "end_time",
              "personal_time", "total_time"}

(* C14: a leaveSpan call on a tree whose root is open closes exactly one
   node, the one runningNode() returned just before the call, and returns
   its name; besides that node's endTime, personalTime and totalTime only
   its parent's totalTime changes, growing by the closed node's final
   totalTime. *)
C14_LeaveClosesDeepestOnly ==
    [][(LeaveSpan /\ ~done(nodes)) =>
          LET c == running_process(nodes)
              par == nodes[c].parent
          IN /\ ret' = Returned(nodes[c].name)
             /\ DOMAIN nodes' = DOMAIN nodes
             /\ ~ended(nodes, c) /\ nodes'[c].end_time = now
             /\ Open(nodes') = Open(nodes) \ {c}
             /\ Same(nodes, nodes', c,
                     {"name", "parent", "children", "begin_time"})
             /\ c # Root =>
                   /\ nodes'[par].total_time
                        = nodes[par].total_time + nodes'[c].total_time
                   /\ Same(nodes, nodes', par, AllFields \ {"total_time"})
             /\ \A p \in DOMAIN nodes \ {c, par} :
                   Same(nodes, nodes', p, AllFields)]_vars

(* a span two levels below the root was closed after it took time, and its
   parent, still running, has its total *)
C14_Witness ==
    /\ ret.value = "a"
    /\ \E c \in DOMAIN nodes :
          /\ ended(nodes, c)
          /\ nodes[c].total_time > 0
          /\ nodes[c].parent \notin {None, Root}
          /\ ~ended(nodes, nodes[c].parent)
          /\ nodes[nodes[c].parent].total_time
                = nodes[nodes[c].parent].personal_time + nodes[c].total_time

(* C15: an enterSpan(name) call on a tree whose root is open appends one new
   open node as the last child of the node runningNode() returned just
   before the call, and adds the gap between that node's previous marker
   (its beginTime if it had no children, else its last child's endTime) and
   the new child's beginTime to its personalTime and totalTime; nothing
   else changes. *)
C15_EnterAttachesAtRunningNode ==
    [][\A name \in NameInputs :
          (EnterSpan(name) /\ ~done(nodes)) =>
             LET r == running_process(nodes)
                 marker == IF nodes[r].children = <<>>
                           THEN nodes[r].begin_time
                           ELSE nodes[last_child(nodes, r)].end_time
                 child == Len(nodes) + 1
             IN /\ ret' = Returned("")
                /\ DOMAIN nodes' = DOMAIN nodes \cup {child}
                /\ nodes'[child]
                     = [ name          |-> lower(name),
                         parent        |-> r,
                         children      |-> <<>>,
                         begin_time    |-> now,
                         end_time      |-> NoEnd,
                         personal_time |-> 0,
                         total_time    |-> 0 ]
                /\ nodes'[r].children = Append(nodes[r].children, child)
                /\ marker # NoEnd
                /\ nodes'[r].personal_time
                     = nodes[r].personal_time + (now - marker)
                /\ nodes'[r].total_time = nodes[r].total_time + (now - marker)
                /\ Same(nodes, nodes', r,
                        {"name", "parent", "begin_time", "end_time"})
                /\ \A p \in DOMAIN nodes \ {r} :
                      Same(nodes, nodes', p, AllFields)]_vars

(* a span was entered two levels below the root, some time after its
   parent had begun *)
C15_Witness ==
    /\ ret = Returned("")
    /\ \E c \in DOMAIN nodes :
          /\ ~ended(nodes, c)
          /\ nodes[c].children = <<>>
          /\ nodes[c].parent \notin {None, Root}
          /\ nodes[nodes[c].parent].personal_time > 0
          /\ nodes[c].begin_time = now

(* C17 as stated: every operation has released every acquisition of the
   lock it made by the time it returns or fails, so between two calls the
   lock is free for the other thread. *)
C17_LockFreeBetweenCalls == lock = Unlocked

(* endTime - beginTime of an ended node *)
Duration(ns, p) == ns[p].end_time - ns[p].begin_time

RECURSIVE SumDuration(_, _)
SumDuration(ns, ps) ==
    IF ps = {} THEN 0
    ELSE LET p == CHOOSE q \in ps : TRUE
         IN Duration(ns, p) + SumDuration(ns, ps \ {p})

(* C18: in one session (no load, no leaveSpan after the root has ended)
   every ended node has only ended children, its totalTime is
   endTime - beginTime, and its personalTime is that duration less the sum
   of endTime - beginTime over its children. *)
C18_EndedTimesAreDurations ==
    \A p \in DOMAIN nodes :
        ended(nodes, p) =>
            /\ \A c \in Children(nodes, p) : ended(nodes, c)
            /\ nodes[p].total_time = Duration(nodes, p)
            /\ nodes[p].personal_time
                 = Duration(nodes, p) - SumDuration(nodes, Children(nodes, p))

(* a span has ended that ran for a while before and inside a nested span *)
C18_Witness ==
    \E p \in DOMAIN nodes :
        /\ ended(nodes, p)
        /\ nodes[p].personal_time > 0
        /\ \E c \in Children(nodes, p) : Duration(nodes, c) > 0
        /\ nodes[p].total_time > nodes[p].personal_time

-----------------------------------------------------------------------------
(* Properties of the snapshot *)

(* the tree with its root forced open and parentless *)
Reopened(ns) == [ns EXCEPT ![Root].end_time = NoEnd, ![Root].parent = None]

(* C3 as stated: loading the snapshot saved from a tree built by
   enterSpan/leaveSpan calls gives back every node's name, beginTime,
   endTime, personalTime, totalTime, children and parent, except that the
   root comes back open. *)
C3_RoundTrip ==
    [][(~resumed /\ resumed' /\ session_file = savef(nodes))
          => nodes' = Reopened(nodes)]_vars

(* C16: whatever enter_process, leave_process and loadf calls came before,
   and wherever the command thread is while the other thread renders:
   report_str appends the running tail (the active path and the elapsed
   time of the deepest running node) if and only if the root has not ended,
   and the per-name table if and only if it has; the node whose elapsed
   time is asked for is running, so no render fails with the invalid-query
   error.  In every state the node report_str tests at line 255 has ended
   exactly when the root has, and time_so_far does not fail on it while the
   root is open; and the text the second thread has rendered has the tail
   that goes with the root. *)
C16_TailSelectedByRoot ==
    /\ prn.pc # "crashed"
    /\ ended(nodes, running_process(nodes)) <=> done(nodes)
    /\ ~done(nodes) => time_so_far(nodes, running_process(nodes), now).ok
    /\ prn.pc = "render_release" =>
          /\ prn.buf.ok
          /\ prn.buf.tail = "current" <=> ~done(nodes)
          /\ prn.buf.tail = "by_name" <=> done(nodes)
          /\ ~done(nodes) =>
                /\ prn.buf.path = running_path(nodes)
                /\ \E t \in 0..now :
                      prn.buf.time
                        = time_str(t - nodes[running_process(nodes)].begin_time)
                /\ prn.buf.rows = <<>>
          /\ done(nodes) =>
                /\ prn.buf.rows # <<>>
                /\ prn.buf.path = <<>>

(* the second thread has rendered the running tail of a loaded tree in
   which a node off the active path is open, while the command thread
   waits for the lock *)
C16_Witness ==
    /\ resumed
    /\ prn.pc = "render_release"
    /\ cmd.pc \in {"enter_acquire", "leave_acquire", "load_acquire"}
    /\ prn.buf.tail = "current"
    /\ Len(prn.buf.path) = 2
    /\ \E p \in Open(nodes) :
          \A i \in 1..Len(running_walk(nodes, Root)) :
              running_walk(nodes, Root)[i] # p

(* C19 as stated: also after a load followed by further calls, every
   node's totalTime is at most the clock time elapsed since its beginTime,
   up to its endTime if it has ended and up to now otherwise. *)
C19_NoTimeCountedTwice ==
    \A p \in DOMAIN nodes :
        nodes[p].total_time
            <= (IF ended(nodes, p) THEN nodes[p].end_time ELSE now)
               - nodes[p].begin_time

-----------------------------------------------------------------------------
(* Properties of the session *)

(* the steps of enter_process and leave_process add up to begin and end *)
StepsAgreeWithCalls ==
    /\ cmd.pc = "enter_release"
          => nodes = begin(stable, Root, cmd.name, cmd.t).ns
    /\ cmd.pc = "leave_release"
          => LET p == end_target(stable, Root)
                 r == end(stable, Root, nodes[p].end_time)
             IN nodes = r.ns /\ cmd.name = r.name

(* C4: the printer's loop does not stop before terminate() is called; after
   the call exactly one iteration starts, wherever the loop was when the
   call was made, and the loop has stopped only after that one iteration. *)
C4_DrainCount ==
    /\ prn.pc # "crashed"
    /\ prn.pc = "done" => cmd.pc \in {"join", "exited"}
    /\ cmd.pc \notin {"join", "exited"} => engaged_count = -1 /\ cycles = 0
    /\ cycles <= 1
    /\ prn.pc = "done" => cycles = 1 /\ engaged_count = 0

(* the loop has stopped after a session in which a span was run *)
C4_Witness ==
    /\ prn.pc = "done"
    /\ cycles = 1
    /\ Len(nodes) > 1
    /\ out_file # NoFile

(* C5: once the printer has stopped at shutdown, the out file holds the
   report and the session file the snapshot of the drained tree, the root
   ended. *)
C5_FinalFlush ==
    prn.pc = "done" =>
        /\ done(nodes)
        /\ \A p \in DOMAIN nodes : ended(nodes, p)
        /\ out_file = report_str(nodes, now)
        /\ out_file.tail = "by_name"
        /\ session_file = savef(nodes)
        /\ session_file.end_time # NoEnd

(* main() has joined the printer after draining two spans *)
C5_Witness ==
    /\ cmd.pc = "exited"
    /\ Len(nodes) = 3
    /\ nodes[Root].total_time > 0

(* C6: the printer traverses the tree only as completed enter_process and
   leave_process calls left it, every call that has returned included:
   what it renders and what it saves is the report and the snapshot of
   that tree, never of a tree inside a call. *)
C6_ReadsSeeCompletedCalls ==
    /\ prn.pc \in {"render", "save"} => nodes = stable
    /\ prn.pc \in {"render", "render_release", "save", "save_release"}
          => cmd.pc \notin {"enter_begin", "enter_append", "enter_release",
                            "leave_end", "leave_add", "leave_return",
                            "leave_release"}
    /\ prn.pc = "render_release"
          => prn.buf.lines
               = traverse(stable, Root, 0, <<>>, [k \in StoredNames |-> <<>>]).lines
    /\ prn.pc = "save_release" => prn.buf = savef(stable)

(* the printer has rendered the tree with an ended span in it while the
   command thread waits for the lock *)
C6_Witness ==
    /\ prn.pc = "render_release"
    /\ cmd.pc = "leave_acquire"
    /\ \E p \in DOMAIN nodes : ended(nodes, p) /\ nodes[p].total_time > 0

-----------------------------------------------------------------------------
(* Properties of the session with failing file operations *)

(* the positions of the printer inside its loop *)
InLoop == {"can_loop", "open_out", "render_acquire", "render",
           "render_release", "write_out", "open_session", "save_acquire",
           "save", "save_release", "close_session", "sleep"}

(* C11 as stated: a failed write of the report or of the snapshot does not
   stop the writer loop: the printer thread is in its loop, or has left it
   through can_loop after terminate(), and it never ends on an I/O error. *)
C11_WriterSurvivesIOError == prn.pc \in InLoop \cup {"done"}

-----------------------------------------------------------------------------
(* Properties of the session that is run again *)

(* C12 as stated: at every instant the session file holds a complete
   snapshot, never an empty or partially written one, so that the load at
   the next startup, whenever the process was killed, does not fail on it. *)
C12_SnapshotAlwaysComplete ==
    /\ session_file # EmptyFile
    /\ ret.err # "malformed_snapshot"

(* C13 as stated, in what it says of the end of the drain: the k + 1
   leaveSpan calls have closed the k open spans and the root, so when the
   drain loop has finished (main() has reached printer.terminate(), and
   only then is engaged_count set) the root has ended and no node of the
   tree is open. *)
C13_DrainClosesEveryNode ==
    (cmd.pc \in {"terminate", "join", "exited"} \/ engaged_count # -1)
        => done(nodes) /\ Open(nodes) = {}

====
